---- MODULE Spec2Model ----
(***************************************************************************)
(* Project Samarth Q&A backend (src/app.py): the rule-based entity         *)
(* extractor, the three report generators, the dispatcher and the /ask     *)
(* and /health handlers, over the in-memory crop and climate tables.       *)
(*                                                                         *)
(* Text is modelled at character level: a question is a sequence of words, *)
(* each word a sequence of one-character strings, so that lower-casing,    *)
(* substring containment and the year pattern are computed, not assumed.   *)
(* Floating-point averages are modelled as exact rationals <<num, den>>    *)
(* and formatted with round-half-to-even, as Python's format() does.       *)
(***************************************************************************)
EXTENDS Integers, Sequences, FiniteSets, TLC

VARIABLES
  AGRICULTURAL_DATA,  \* the module-level crop table (src/app.py:36)
  CLIMATE_DATA,       \* the module-level climate table (src/app.py:69)
  call,               \* the operation in progress and its inputs, or Idle
  result,             \* what the operation returned (or the exception raised)
  served              \* history: the number of calls that have returned

vars == <<AGRICULTURAL_DATA, CLIMATE_DATA, call, result, served>>

-----------------------------------------------------------------------------
(* Bounds of the model *)

\* longest question, in words, drawn from Vocabulary
MaxWords == 2
\* longest year->value series of a generated dataset
MaxSeries == 2
\* number of calls made one after the other
MaxCalls == 2

-----------------------------------------------------------------------------
(* Text: words, questions and their characters *)

\* spelling of every word a question may hold
Chars ==
     ("Compare" :> <<"C","o","m","p","a","r","e">>)
  @@ ("trend" :> <<"t","r","e","n","d">>)
  @@ ("promote" :> <<"p","r","o","m","o","t","e">>)
  @@ ("argument" :> <<"a","r","g","u","m","e","n","t">>)
  @@ ("drought" :> <<"d","r","o","u","g","h","t">>)
  @@ ("resistant" :> <<"r","e","s","i","s","t","a","n","t">>)
  @@ ("Rajasthan" :> <<"R","a","j","a","s","t","h","a","n">>)
  @@ ("Punjab" :> <<"P","u","n","j","a","b">>)
  @@ ("gujarat" :> <<"g","u","j","a","r","a","t">>)
  @@ ("haryana" :> <<"h","a","r","y","a","n","a">>)
  @@ ("bajra" :> <<"b","a","j","r","a">>)
  @@ ("pearl millet" :> <<"p","e","a","r","l"," ","m","i","l","l","e","t">>)
  @@ ("millet" :> <<"m","i","l","l","e","t">>)
  @@ ("price" :> <<"p","r","i","c","e">>)
  @@ ("2021" :> <<"2","0","2","1">>)
  @@ ("hello" :> <<"h","e","l","l","o">>)
  @@ ("What" :> <<"W","h","a","t">>)
  @@ ("are" :> <<"a","r","e">>)
  @@ ("arguments" :> <<"a","r","g","u","m","e","n","t","s">>)
  @@ ("to" :> <<"t","o">>)
  @@ ("drought-resistant" :> <<"d","r","o","u","g","h","t","-","r","e","s","i","s","t","a","n","t">>)
  @@ ("crops" :> <<"c","r","o","p","s">>)
  @@ ("in" :> <<"i","n">>)
  @@ ("Rajasthan?" :> <<"R","a","j","a","s","t","h","a","n","?">>)
  @@ ("crop" :> <<"c","r","o","p">>)
  @@ ("production" :> <<"p","r","o","d","u","c","t","i","o","n">>)
  @@ ("and" :> <<"a","n","d">>)
  @@ ("Analyze" :> <<"A","n","a","l","y","z","e">>)
  @@ ("rainfall" :> <<"r","a","i","n","f","a","l","l">>)
  @@ ("trends" :> <<"t","r","e","n","d","s">>)
  @@ ("over" :> <<"o","v","e","r">>)
  @@ ("the" :> <<"t","h","e">>)
  @@ ("last" :> <<"l","a","s","t">>)
  @@ ("5" :> <<"5">>)
  @@ ("years" :> <<"y","e","a","r","s">>)
  @@ ("Which" :> <<"W","h","i","c","h">>)
  @@ ("most" :> <<"m","o","s","t">>)
  @@ ("suitable" :> <<"s","u","i","t","a","b","l","e">>)
  @@ ("for" :> <<"f","o","r">>)
  @@ ("arid" :> <<"a","r","i","d">>)
  @@ ("regions?" :> <<"r","e","g","i","o","n","s","?">>)
  @@ ("water" :> <<"w","a","t","e","r">>)
  @@ ("requirements" :> <<"r","e","q","u","i","r","e","m","e","n","t","s">>)
  @@ ("of" :> <<"o","f">>)
  @@ ("Bajra" :> <<"B","a","j","r","a">>)
  @@ ("vs" :> <<"v","s">>)
  @@ ("Rice" :> <<"R","i","c","e">>)

\* spelling of the keyword literals of extract_entities and generate_answer
Kw ==
     ("rajasthan" :> <<"r","a","j","a","s","t","h","a","n">>)
  @@ ("raj" :> <<"r","a","j">>)
  @@ ("punjab" :> <<"p","u","n","j","a","b">>)
  @@ ("gujarat" :> <<"g","u","j","a","r","a","t">>)
  @@ ("haryana" :> <<"h","a","r","y","a","n","a">>)
  @@ ("bajra" :> <<"b","a","j","r","a">>)
  @@ ("pearl millet" :> <<"p","e","a","r","l"," ","m","i","l","l","e","t">>)
  @@ ("millet" :> <<"m","i","l","l","e","t">>)
  @@ ("wheat" :> <<"w","h","e","a","t">>)
  @@ ("rice" :> <<"r","i","c","e">>)
  @@ ("paddy" :> <<"p","a","d","d","y">>)
  @@ ("cotton" :> <<"c","o","t","t","o","n">>)
  @@ ("groundnut" :> <<"g","r","o","u","n","d","n","u","t">>)
  @@ ("peanut" :> <<"p","e","a","n","u","t">>)
  @@ ("guar" :> <<"g","u","a","r">>)
  @@ ("cluster bean" :> <<"c","l","u","s","t","e","r"," ","b","e","a","n">>)
  @@ ("rainfall" :> <<"r","a","i","n","f","a","l","l">>)
  @@ ("production" :> <<"p","r","o","d","u","c","t","i","o","n">>)
  @@ ("yield" :> <<"y","i","e","l","d">>)
  @@ ("drought" :> <<"d","r","o","u","g","h","t">>)
  @@ ("water" :> <<"w","a","t","e","r">>)
  @@ ("compare" :> <<"c","o","m","p","a","r","e">>)
  @@ ("trend" :> <<"t","r","e","n","d">>)
  @@ ("argument" :> <<"a","r","g","u","m","e","n","t">>)
  @@ ("promote" :> <<"p","r","o","m","o","t","e">>)
  @@ ("resistant" :> <<"r","e","s","i","s","t","a","n","t">>)


\* words the bounded questions are drawn from
Vocabulary ==
  {"Compare", "trend", "promote", "argument", "drought", "resistant",
   "Rajasthan", "Punjab", "gujarat", "haryana", "bajra", "pearl millet",
   "millet", "price", "2021", "hello"}

\* the sample questions of the front end, and the second one with the two
\* states swapped
Sample1 == <<"What", "are", "arguments", "to", "promote", "drought-resistant", "crops", "in", "Rajasthan?">>
Sample2 == <<"Compare", "crop", "production", "in", "Rajasthan", "and", "Punjab">>
Sample3 == <<"Compare", "crop", "production", "in", "Punjab", "and", "Rajasthan">>
Sample4 == <<"Analyze", "rainfall", "trends", "in", "Rajasthan", "over", "the", "last", "5", "years">>
Sample5 == <<"Which", "crops", "are", "most", "suitable", "for", "arid", "regions?">>
Sample6 == <<"Compare", "water", "requirements", "of", "Bajra", "vs", "Rice", "in", "Rajasthan">>

SampleQuestions == {Sample1, Sample2, Sample3, Sample4, Sample5, Sample6}

BoundedQuestions == UNION {[1..n -> Vocabulary] : n \in 0..MaxWords}

Questions == BoundedQuestions \cup SampleQuestions

\* the characters of a question: its words separated by single spaces
RECURSIVE Text(_)
Text(q) ==
  IF Len(q) = 0 THEN <<>>
  ELSE IF Len(q) = 1 THEN Chars[q[1]]
  ELSE Chars[q[1]] \o <<" ">> \o Text(Tail(q))

UpperToLower ==
  [A |-> "a", B |-> "b", C |-> "c", D |-> "d", E |-> "e", F |-> "f", G |-> "g",
   H |-> "h", I |-> "i", J |-> "j", K |-> "k", L |-> "l", M |-> "m", N |-> "n",
   O |-> "o", P |-> "p", Q |-> "q", R |-> "r", S |-> "s", T |-> "t", U |-> "u",
   V |-> "v", W |-> "w", X |-> "x", Y |-> "y", Z |-> "z"]

\* str.lower()
Lower(text) ==
  [i \in 1..Len(text) |->
     IF text[i] \in DOMAIN UpperToLower THEN UpperToLower[text[i]] ELSE text[i]]

\* Python's `keyword in text` on strings: substring containment
Contains(text, keyword) ==
  \E i \in 1..(Len(text) - Len(keyword) + 1) :
     \A j \in 1..Len(keyword) : text[i + j - 1] = keyword[j]

Digits == {"0", "1", "2", "3", "4", "5", "6", "7", "8", "9"}

\* \w of the re module
IsWordChar(c) ==
  c \in Digits \/ c \in DOMAIN UpperToLower \/ c = "_"
  \/ c \in {UpperToLower[u] : u \in DOMAIN UpperToLower}

\* \b between positions i-1 and i of text
WordBoundary(text, i) ==
  LET before == i > 1 /\ IsWordChar(text[i - 1])
      after  == i <= Len(text) /\ IsWordChar(text[i])
  IN before # after

\* the pattern \b(201[8-9]|202[0-4])\b matches at position i
YearAt(text, i) ==
  /\ i + 3 <= Len(text)
  /\ text[i] = "2" /\ text[i + 1] = "0"
  /\ \/ text[i + 2] = "1" /\ text[i + 3] \in {"8", "9"}
     \/ text[i + 2] = "2" /\ text[i + 3] \in {"0", "1", "2", "3", "4"}
  /\ WordBoundary(text, i) /\ WordBoundary(text, i + 4)

\* a four-digit match as the string re.findall returns
YearString(text, i) ==
  "20" \o text[i + 2] \o text[i + 3]

\* re.findall: the matches from left to right (matches cannot overlap, each
\* being delimited by word boundaries)
RECURSIVE FindYears(_, _)
FindYears(text, i) ==
  IF i > Len(text) THEN <<>>
  ELSE IF YearAt(text, i) THEN <<YearString(text, i)>> \o FindYears(text, i + 4)
  ELSE FindYears(text, i + 1)

-----------------------------------------------------------------------------
(* extract_entities *)

\* Python's None
None == "None"

\* the state keyword dict, in declaration (= iteration) order
state_keywords ==
  << <<"rajasthan", <<"rajasthan", "raj">> >>,
     <<"punjab",    <<"punjab">> >>,
     <<"gujarat",   <<"gujarat">> >>,
     <<"haryana",   <<"haryana">> >> >>

\* the crop keyword dict, in declaration (= iteration) order
crop_keywords ==
  << <<"Bajra",     <<"bajra", "pearl millet", "millet">> >>,
     <<"Wheat",     <<"wheat">> >>,
     <<"Rice",      <<"rice", "paddy">> >>,
     <<"Cotton",    <<"cotton">> >>,
     <<"Groundnut", <<"groundnut", "peanut">> >>,
     <<"Guar",      <<"guar", "cluster bean">> >> >>

\* any(keyword in question_lower for keyword in keywords)
AnyKeyword(question_lower, keywords) ==
  \E k \in 1..Len(keywords) : Contains(question_lower, Kw[keywords[k]])

\* the mutant of MatchNames: append the canonical name once per synonym that
\* occurs, instead of once per entry
RECURSIVE MatchNamesPerKeyword(_, _)
MatchNamesPerKeyword(question_lower, table) ==
  IF Len(table) = 0 THEN <<>>
  ELSE LET name == Head(table)[1]
           kws  == Head(table)[2]
           hits == SelectSeq(kws, LAMBDA k : Contains(question_lower, Kw[k]))
       IN [i \in 1..Len(hits) |-> name]
            \o MatchNamesPerKeyword(question_lower, Tail(table))

\* the mutant of MatchNames: the entries are visited in the order of their
\* first mention in the question rather than in declaration order
RECURSIVE MatchNamesByMention(_, _)
MatchNamesByMention(question_lower, table) ==
  LET FirstAt(e) ==
        CHOOSE i \in 1..Len(question_lower) :
          /\ \E k \in 1..Len(e[2]) :
                 LET kw == Kw[e[2][k]]
                 IN /\ i + Len(kw) - 1 <= Len(question_lower)
                    /\ \A j \in 1..Len(kw) : question_lower[i + j - 1] = kw[j]
          /\ \A i2 \in 1..(i - 1) :
                 ~ \E k \in 1..Len(e[2]) :
                     LET kw == Kw[e[2][k]]
                     IN /\ i2 + Len(kw) - 1 <= Len(question_lower)
                        /\ \A j \in 1..Len(kw) : question_lower[i2 + j - 1] = kw[j]
      hit == SelectSeq(table, LAMBDA e : AnyKeyword(question_lower, e[2]))
      Rank(n) == Cardinality({m \in 1..Len(hit) : FirstAt(hit[m]) < FirstAt(hit[n])}) + 1
  IN [r \in 1..Len(hit) |->
        hit[CHOOSE n \in 1..Len(hit) : Rank(n) = r][1]]

\* for name, keywords in table.items(): if any(...): names.append(name)
MatchNames(question_lower, table) ==
  LET hit == SelectSeq(table, LAMBDA e : AnyKeyword(question_lower, e[2]))
  IN [i \in 1..Len(hit) |-> hit[i][1]]

\* the four `if ... in question_lower: metrics.append(...)` tests, in order
ExtractMetrics(question_lower) ==
  (IF Contains(question_lower, Kw["rainfall"]) THEN <<"rainfall">> ELSE <<>>)
  \o (IF Contains(question_lower, Kw["production"])
         \/ Contains(question_lower, Kw["yield"])
      THEN <<"production">> ELSE <<>>)
  \o (IF Contains(question_lower, Kw["drought"])
      THEN <<"drought_resistance">> ELSE <<>>)
  \o (IF Contains(question_lower, Kw["water"])
      THEN <<"water_requirement">> ELSE <<>>)

\* the mutant of ComparisonType: "trend" is tested before "compare"
ComparisonTypeTrendFirst(question_lower) ==
  IF Contains(question_lower, Kw["trend"]) THEN "trend"
  ELSE IF Contains(question_lower, Kw["compare"]) THEN "comparison"
  ELSE IF Contains(question_lower, Kw["argument"])
          \/ Contains(question_lower, Kw["promote"]) THEN "policy_arguments"
  ELSE None

\* the if / elif / elif chain that sets entities["comparison_type"]
ComparisonType(question_lower) ==
  IF Contains(question_lower, Kw["compare"]) THEN "comparison"
  ELSE IF Contains(question_lower, Kw["trend"]) THEN "trend"
  ELSE IF Contains(question_lower, Kw["argument"])
          \/ Contains(question_lower, Kw["promote"]) THEN "policy_arguments"
  ELSE None

extract_entities(question) ==
  LET question_lower == Lower(Text(question))
  IN [states          |-> MatchNames(question_lower, state_keywords),
      crops           |-> MatchNames(question_lower, crop_keywords),
      years           |-> FindYears(Text(question), 1),
      metrics         |-> ExtractMetrics(question_lower),
      comparison_type |-> ComparisonType(question_lower)]

-----------------------------------------------------------------------------
(* The static dataset.  A year -> value dict is the sequence of its         *)
(* <<year, value>> items in insertion order; the other dicts are functions. *)

StaticAgriculturalData ==
  [rajasthan |->
     [crops |->
        [Bajra     |-> << <<"2018", 4500>>, <<"2019", 4200>>, <<"2020", 3800>>, <<"2021", 3500>>, <<"2022", 4000>> >>,
         Wheat     |-> << <<"2018", 3200>>, <<"2019", 3100>>, <<"2020", 2800>>, <<"2021", 2500>>, <<"2022", 2700>> >>,
         Groundnut |-> << <<"2018", 800>>, <<"2019", 750>>, <<"2020", 700>>, <<"2021", 650>>, <<"2022", 720>> >>,
         Guar      |-> << <<"2018", 600>>, <<"2019", 620>>, <<"2020", 580>>, <<"2021", 550>>, <<"2022", 590>> >>,
         Rice      |-> << <<"2018", 1200>>, <<"2019", 1100>>, <<"2020", 900>>, <<"2021", 800>>, <<"2022", 850>> >>],
      water_requirements |->
        [Bajra     |-> "Low (350-400mm)",
         Wheat     |-> "High (500-600mm)",
         Groundnut |-> "Medium (400-500mm)",
         Guar      |-> "Very Low (250-300mm)",
         Rice      |-> "Very High (1200-1500mm)"]],
   punjab |->
     [crops |->
        [Wheat  |-> << <<"2018", 18000>>, <<"2019", 17500>>, <<"2020", 17000>>, <<"2021", 16500>>, <<"2022", 16800>> >>,
         Rice   |-> << <<"2018", 16000>>, <<"2019", 15800>>, <<"2020", 15500>>, <<"2021", 15200>>, <<"2022", 15400>> >>,
         Cotton |-> << <<"2018", 2000>>, <<"2019", 1900>>, <<"2020", 1850>>, <<"2021", 1800>>, <<"2022", 1820>> >>,
         Bajra  |-> << <<"2018", 800>>, <<"2019", 750>>, <<"2020", 700>>, <<"2021", 650>>, <<"2022", 680>> >>],
      water_requirements |->
        [Wheat  |-> "High (500-600mm)",
         Rice   |-> "Very High (1200-1500mm)",
         Cotton |-> "Medium (400-500mm)",
         Bajra  |-> "Low (350-400mm)"]]]

\* avg_temperature is held in tenths of a degree (28.5 and 24.0); it is never read
StaticClimateData ==
  [rajasthan |->
     [rainfall |-> << <<"2018", 450>>, <<"2019", 380>>, <<"2020", 320>>, <<"2021", 290>>, <<"2022", 410>> >>,
      drought_years |-> <<"2020", "2021">>,
      avg_temperature |-> 285,
      climate_zone |-> "Arid"],
   punjab |->
     [rainfall |-> << <<"2018", 650>>, <<"2019", 620>>, <<"2020", 580>>, <<"2021", 590>>, <<"2022", 610>> >>,
      drought_years |-> << >>,
      avg_temperature |-> 240,
      climate_zone |-> "Semi-Arid"]]

DATA_SOURCES ==
  [agriculture |->
     [name        |-> "Ministry of Agriculture - Crop Production Statistics",
      url         |-> "https://data.gov.in/resource/all-india-season-wise-crop-production-statistics",
      description |-> "State-wise and crop-wise production data from 2018-2022"],
   climate |->
     [name        |-> "India Meteorological Department - Rainfall Data",
      url         |-> "https://data.gov.in/resource/district-wise-rainfall-normal",
      description |-> "Historical rainfall patterns and climate data from 2018-2022"]]

-----------------------------------------------------------------------------
(* Dict and list helpers *)

\* the empty dict {}
EmptyDict == << >>

\* list(d.values()) of a year -> value dict
Values(series) == [i \in 1..Len(series) |-> series[i][2]]

\* sum(values)
RECURSIVE Sum(_)
Sum(values) == IF Len(values) = 0 THEN 0 ELSE Head(values) + Sum(Tail(values))

\* whether x occurs in the list
InList(x, list) == \E i \in 1..Len(list) : list[i] = x

\* separator.join(strings)
RECURSIVE Join(_, _)
Join(strings, separator) ==
  IF Len(strings) = 0 THEN ""
  ELSE IF Len(strings) = 1 THEN strings[1]
  ELSE strings[1] \o separator \o Join(Tail(strings), separator)

\* repr() of a list of strings, as an f-string interpolates it
ListRepr(strings) ==
  "[" \o Join([i \in 1..Len(strings) |-> "'" \o strings[i] \o "'"], ", ") \o "]"

\* str.title() on the state names
Title(state) ==
  CASE state = "rajasthan" -> "Rajasthan"
    [] state = "punjab"    -> "Punjab"
    [] state = "gujarat"   -> "Gujarat"
    [] state = "haryana"   -> "Haryana"

\* str.lower() on the climate zone labels
ZoneLower(zone) ==
  CASE zone = "Arid"      -> "arid"
    [] zone = "Semi-Arid" -> "semi-arid"
    [] zone = "Unknown"   -> "unknown"

\* the value of a four-digit year label, for comparing labels as strings
YearNumber(label) ==
  CASE label = "2018" -> 2018 [] label = "2019" -> 2019 [] label = "2020" -> 2020
    [] label = "2021" -> 2021 [] label = "2022" -> 2022

\* label1 <= label2 as Python compares the strings
YearLeq(label1, label2) == YearNumber(label1) <= YearNumber(label2)

\* the items of a year -> value dict sorted by year label: sorted(d.keys())
RECURSIVE SortedByYear(_)
SortedByYear(series) ==
  IF Len(series) = 0 THEN << >>
  ELSE LET m == CHOOSE i \in 1..Len(series) :
                  \A j \in 1..Len(series) : YearLeq(series[i][1], series[j][1])
       IN <<series[m]>> \o
          SortedByYear([k \in 1..(Len(series) - 1) |->
                           IF k < m THEN series[k] ELSE series[k + 1]])

-----------------------------------------------------------------------------
(* Numbers.  A float is the exact rational <<num, den>>, den > 0.           *)

Zero == <<0, 1>>

\* sum(values) / len(values), for a non-empty list
Mean(values) == <<Sum(values), Len(values)>>

Positive(x) == x[1] > 0

Abs(x) == IF x[1] < 0 THEN <<0 - x[1], x[2]>> ELSE x

\* n / d rounded to the nearest integer, ties to even, n >= 0 and d > 0
RoundHalfEven(n, d) ==
  LET q == n \div d
      r == n % d
  IN IF 2 * r < d THEN q
     ELSE IF 2 * r > d THEN q + 1
     ELSE IF q % 2 = 0 THEN q ELSE q + 1

\* f"{x:.0f}" of a non-negative x
Format0(x) == ToString(RoundHalfEven(x[1], x[2]))

\* f"{x:.1f}" of a non-negative x
Format1(x) ==
  LET tenths == RoundHalfEven(10 * x[1], x[2])
  IN ToString(tenths \div 10) \o "." \o ToString(tenths % 10)

\* three digits, zero-padded
Pad3(n) ==
  IF n < 10 THEN "00" \o ToString(n)
  ELSE IF n < 100 THEN "0" \o ToString(n)
  ELSE ToString(n)

\* f"{x:,.0f}" of a non-negative x below a thousand million
FormatThousands0(x) ==
  LET n == RoundHalfEven(x[1], x[2])
  IN IF n < 1000 THEN ToString(n)
     ELSE IF n < 1000000 THEN ToString(n \div 1000) \o "," \o Pad3(n % 1000)
     ELSE ToString(n \div 1000000) \o "," \o Pad3((n \div 1000) % 1000)
            \o "," \o Pad3(n % 1000)

\* calculate_variance: the population variance, 0 for an empty list.
\* sum((x - mean) ** 2) / n, with x - mean = (n * x - sum) / n
calculate_variance(data) ==
  IF Len(data) = 0 THEN Zero
  ELSE LET n == Len(data)
           total == Sum(data)
       IN <<Sum([i \in 1..n |-> (n * data[i] - total) * (n * data[i] - total)]),
            n * n * n>>

-----------------------------------------------------------------------------
(* Table lookups shared by the generators *)

\* key in d
HasKey(d, key) == key \in DOMAIN d

\* CLIMATE_DATA.get(state, {}).get("rainfall", {})
rainfall_of(clim, state) ==
  IF HasKey(clim, state) THEN clim[state].rainfall ELSE << >>

\* CLIMATE_DATA.get(state, {}).get("drought_years", [])
drought_years_of(clim, state) ==
  IF HasKey(clim, state) THEN clim[state].drought_years ELSE << >>

\* CLIMATE_DATA.get(state, {}).get("climate_zone", "Unknown")
climate_zone_of(clim, state) ==
  IF HasKey(clim, state) THEN clim[state].climate_zone ELSE "Unknown"

\* AGRICULTURAL_DATA.get(state, {}).get("crops", {})
crops_of(agri, state) ==
  IF HasKey(agri, state) THEN agri[state].crops ELSE EmptyDict

\* AGRICULTURAL_DATA.get(state, {}).get("water_requirements", {})
water_requirements_of(agri, state) ==
  IF HasKey(agri, state) THEN agri[state].water_requirements ELSE EmptyDict

\* the mutant of crop_in_table: the membership test is left out
crop_in_table_unguarded(agri, state, crop) == TRUE

\* if crop in AGRICULTURAL_DATA.get(state, {}).get("crops", {})
crop_in_table(agri, state, crop) == HasKey(crops_of(agri, state), crop)

\* AGRICULTURAL_DATA[state]["crops"][crop] finds its keys
SubscriptFound(agri, state, crop) ==
  HasKey(agri, state) /\ HasKey(agri[state].crops, crop)

\* sum(rainfall_data.values()) / len(rainfall_data) if rainfall_data else 0
average_rainfall(rainfall_data) ==
  IF Len(rainfall_data) > 0 THEN Mean(Values(rainfall_data)) ELSE Zero

\* the concatenation of a list of lists
RECURSIVE Concat(_)
Concat(lists) == IF Len(lists) = 0 THEN << >> ELSE Head(lists) \o Concat(Tail(lists))

\* the mutant of Sources: the climate source is listed first
SourcesClimateFirst == <<DATA_SOURCES.climate, DATA_SOURCES.agriculture>>

\* the two citation records every generator returns
Sources == <<DATA_SOURCES.agriculture, DATA_SOURCES.climate>>

\* an exception leaving a generator
Raise(kind) == [raised |-> kind]

-----------------------------------------------------------------------------
(* generate_policy_arguments *)

drought_resistant_crops == <<"Bajra", "Guar">>
water_intensive_crops == <<"Rice", "Wheat">>

\* the mutant of target_state: the default is the other state of the tables
target_state_default_punjab(entities) ==
  IF Len(entities.states) > 0 THEN entities.states[1] ELSE "punjab"

\* state = entities["states"][0] if entities["states"] else "rajasthan"
target_state(entities) ==
  IF Len(entities.states) > 0 THEN entities.states[1] ELSE "rajasthan"

\* the production values of the years that are (or are not) drought years
drought_performance(series, drought_years) ==
  Values(SelectSeq(series, LAMBDA item : InList(item[1], drought_years)))

normal_performance(series, drought_years) ==
  Values(SelectSeq(series, LAMBDA item : ~ InList(item[1], drought_years)))

\* the mutant of avg_normal: without normal years the denominator is 0
avg_normal_zero_fallback(series, drought_years) ==
  LET normal == normal_performance(series, drought_years)
  IN IF Len(normal) > 0 THEN Mean(normal) ELSE Zero

\* sum(normal) / len(normal) if normal_performance else avg_production
avg_normal(series, drought_years) ==
  LET normal == normal_performance(series, drought_years)
  IN IF Len(normal) > 0 THEN Mean(normal) ELSE Mean(Values(series))

\* the mutant of avg_drought: without drought years the average of all years
avg_drought_average_fallback(series, drought_years) ==
  LET drought == drought_performance(series, drought_years)
  IN IF Len(drought) > 0 THEN Mean(drought) ELSE Mean(Values(series))

\* sum(drought) / len(drought) if drought_performance else 0
avg_drought(series, drought_years) ==
  LET drought == drought_performance(series, drought_years)
  IN IF Len(drought) > 0 THEN Mean(drought) ELSE Zero

\* (avg_drought / avg_normal * 100) if avg_normal > 0 else 0
resilience_ratio(series, drought_years) ==
  LET d == avg_drought(series, drought_years)
      n == avg_normal(series, drought_years)
  IN IF Positive(n) THEN <<d[1] * n[2] * 100, d[2] * n[1]>> ELSE Zero

\* the crops that get a stability entry: in the table, with more than one value
stability_crops(crop_data) ==
  {c \in {"Bajra", "Guar", "Rice", "Wheat"} :
      HasKey(crop_data, c) /\ Len(crop_data[c]) > 1}

stability_data(crop_data, drought_years) ==
  [c \in stability_crops(crop_data) |->
     [average_production  |-> Mean(Values(crop_data[c])),
      production_variance |-> calculate_variance(Values(crop_data[c])),
      drought_resilience  |->
         Format1(resilience_ratio(crop_data[c], drought_years)) \o "%"]]

\* the "- **crop**: label water requirement" lines of the recommended crops
recommended_lines(water_req_data) ==
  Concat([i \in 1..Len(drought_resistant_crops) |->
            LET crop == drought_resistant_crops[i]
            IN IF HasKey(water_req_data, crop)
               THEN <<"- **", crop, "**: ", water_req_data[crop],
                      " water requirement\n">>
               ELSE << >>])

generate_policy_arguments(entities, agri, clim) ==
  LET state          == target_state(entities)
      rainfall_data  == rainfall_of(clim, state)
      avg_rainfall   == average_rainfall(rainfall_data)
      drought_years  == drought_years_of(clim, state)
      climate_zone   == climate_zone_of(clim, state)
      crop_data      == crops_of(agri, state)
      water_req_data == water_requirements_of(agri, state)
      stability      == stability_data(crop_data, drought_years)
      all_crops      == drought_resistant_crops \o water_intensive_crops
      answer ==
        << "## Data-Backed Arguments for Promoting Drought-Resistant Crops in ",
           Title(state), "\n\n",
           "Based on integrated analysis of climate and agricultural data from 2018-2022:\n\n",
           "### 1. Water Scarcity Adaptation\n",
           "**", Title(state), "** receives only **", Format0(avg_rainfall),
           "mm** average annual rainfall (classified as ", ZoneLower(climate_zone),
           ") with recent drought years in ", ListRepr(drought_years),
           ". Drought-resistant crops like Bajra and Guar require **60-70% less water** than water-intensive alternatives like Rice and Wheat.",
           "\n\n",
           "- Average Rainfall: ", Format0(avg_rainfall), "mm\n",
           "- Climate Zone: ", climate_zone, "\n",
           "- Recent Drought Years: ",
           IF Len(drought_years) > 0 THEN Join(drought_years, ", ") ELSE "None",
           "\n", "\n",
           "### 2. Economic Resilience\n",
           "Drought-resistant crops maintain higher production levels during drought years, providing economic stability to farmers when they need it most.",
           "\n\n", "\n",
           "### 3. Sustainable Resource Management\n",
           "With groundwater levels in ", Title(state),
           " declining rapidly, shifting to low-water crops is essential for long-term agricultural sustainability.",
           "\n\n", "\n",
           "### Recommended Drought-Resistant Crops:\n" >>
        \o recommended_lines(water_req_data)
  IN [raised      |-> None,
      answer      |-> answer,
      data_points |->
        [average_rainfall   |-> avg_rainfall,
         drought_years      |-> drought_years,
         climate_zone       |-> climate_zone,
         crop_stability     |-> stability,
         water_requirements |->
           [c \in {all_crops[i] : i \in 1..Len(all_crops)} |->
              IF HasKey(water_req_data, c) THEN water_req_data[c] ELSE "Unknown"]],
      sources     |-> Sources]

-----------------------------------------------------------------------------
(* generate_comparison *)

\* the mutant of default_states: only the first state is a default
default_states_rajasthan_only == <<"rajasthan">>

default_states == <<"rajasthan", "punjab">>
default_crops == <<"Bajra", "Wheat">>

\* entities["states"] if entities["states"] else ["rajasthan", "punjab"]
comparison_states(entities) ==
  IF Len(entities.states) > 0 THEN entities.states ELSE default_states

\* entities["crops"] if entities["crops"] else ["Bajra", "Wheat"]
requested_crops(entities) ==
  IF Len(entities.crops) > 0 THEN entities.crops ELSE default_crops

\* the requested crops that pass the `if crop in ...` test for the state
selected_crops(agri, state, crops) ==
  SelectSeq(crops, LAMBDA crop : crop_in_table(agri, state, crop))

\* the mutant of comparison_crop_line: the latest value stands for the average
comparison_crop_line_latest(agri, state, crop) ==
  LET water_requirements == agri[state].water_requirements
      series == agri[state].crops[crop]
  IN <<"- **", crop, "**: ",
       FormatThousands0(<<series[Len(series)][2], 1>>),
       " thousand tonnes (Water: ",
       IF HasKey(water_requirements, crop) THEN water_requirements[crop]
       ELSE "Unknown",
       ")\n">>

\* one "- **crop**: average thousand tonnes (Water: label)" line
comparison_crop_line(agri, state, crop) ==
  LET water_requirements == agri[state].water_requirements
  IN <<"- **", crop, "**: ",
       FormatThousands0(Mean(Values(agri[state].crops[crop]))),
       " thousand tonnes (Water: ",
       IF HasKey(water_requirements, crop) THEN water_requirements[crop]
       ELSE "Unknown",
       ")\n">>

\* the section of one state
comparison_section(agri, clim, state, crops) ==
  <<"### ", Title(state), "\n",
    "- **Climate Zone**: ", climate_zone_of(clim, state), "\n",
    "- **Average Rainfall**: ",
    Format1(average_rainfall(rainfall_of(clim, state))), "mm\n">>
  \o Concat([i \in 1..Len(selected_crops(agri, state, crops)) |->
               comparison_crop_line(agri, state,
                                    selected_crops(agri, state, crops)[i])])
  \o <<"\n">>

generate_comparison(entities, agri, clim) ==
  LET states == comparison_states(entities)
      crops  == requested_crops(entities)
      pairs  == {<<st, c>> \in {states[i] : i \in 1..Len(states)}
                                \X {crops[i] : i \in 1..Len(crops)} :
                    crop_in_table(agri, st, c)}
  IN IF \E pr \in pairs : ~ SubscriptFound(agri, pr[1], pr[2])
       THEN Raise("KeyError")
     ELSE IF \E pr \in pairs : Len(agri[pr[1]].crops[pr[2]]) = 0
       THEN Raise("ZeroDivisionError")
     ELSE
       [raised      |-> None,
        answer      |->
          <<"## Comparative Analysis: ",
            Join([i \in 1..Len(states) |-> Title(states[i])], ", "), "\n\n">>
          \o Concat([i \in 1..Len(states) |->
                       comparison_section(agri, clim, states[i], crops)]),
        data_points |->
          [st \in {states[i] : i \in 1..Len(states)} |->
             [rainfall        |-> rainfall_of(clim, st),
              crop_production |->
                 [c \in {c2 \in {crops[i] : i \in 1..Len(crops)} :
                            crop_in_table(agri, st, c2)}
                    |-> agri[st].crops[c]],
              climate_zone    |-> climate_zone_of(clim, st)]],
        sources     |-> Sources]

-----------------------------------------------------------------------------
(* generate_trend_analysis *)

\* (values[-1] - values[0]) / len(values), for a non-empty list
linear_trend(values) ==
  <<values[Len(values)] - values[1], Len(values)>>

\* the mutant of trend_direction: a trend of 0 counts as increasing
trend_direction_zero_increasing(trend) ==
  IF trend[1] >= 0 THEN "Increasing" ELSE "Decreasing"

\* 'Increasing' if trend > 0 else 'Decreasing'
trend_direction(trend) ==
  IF Positive(trend) THEN "Increasing" ELSE "Decreasing"

\* the arrow or chart glyph that goes with the direction
trend_icon(trend) ==
  IF Positive(trend) THEN "(up) " ELSE "(down) "

\* if len(rainfall_values) > 1
has_rainfall_trend(rainfall_values) == Len(rainfall_values) > 1

\* the "### Climate Trends" block, present when the rainfall test passes
rainfall_trend_lines(clim, state) ==
  LET rainfall_values == Values(rainfall_of(clim, state))
  IN IF has_rainfall_trend(rainfall_values)
     THEN LET rainfall_trend == linear_trend(rainfall_values)
          IN <<"### Climate Trends\n",
               "- **Rainfall Trend**: ", trend_icon(rainfall_trend),
               trend_direction(rainfall_trend), " by ",
               Format1(Abs(rainfall_trend)), "mm per year\n",
               "- **Drought Years**: ",
               ListRepr(clim[state].drought_years), "\n\n">>
     ELSE << >>

\* production_values: the values in ascending order of year label
production_values(production_data) == Values(SortedByYear(production_data))

\* one "- **crop**: Increasing|Decreasing by x thousand tonnes/year" line
crop_trend_line(crop, production_data) ==
  LET production_trend == linear_trend(production_values(production_data))
  IN <<"- **", crop, "**: ", trend_icon(production_trend),
       trend_direction(production_trend), " by ",
       Format1(Abs(production_trend)), " thousand tonnes/year\n">>

generate_trend_analysis(entities, agri, clim) ==
  LET state    == target_state(entities)
      crops    == requested_crops(entities)
      selected == selected_crops(agri, state, crops)
  IN IF \E i \in 1..Len(selected) : ~ SubscriptFound(agri, state, selected[i])
       THEN Raise("KeyError")
     ELSE IF \E i \in 1..Len(selected) : Len(agri[state].crops[selected[i]]) = 0
       THEN Raise("IndexError")
     ELSE
       [raised      |-> None,
        answer      |->
          <<"## Trend Analysis for ", Title(state), " (2018-2022)\n\n">>
          \o rainfall_trend_lines(clim, state)
          \o <<"### Crop Production Trends\n">>
          \o Concat([i \in 1..Len(selected) |->
                       crop_trend_line(selected[i], agri[state].crops[selected[i]])]),
        data_points |->
          [rainfall_trend |-> rainfall_of(clim, state),
           crop_trends    |->
              [c \in {selected[i] : i \in 1..Len(selected)} |-> agri[state].crops[c]]],
        sources     |-> Sources]

-----------------------------------------------------------------------------
(* generate_answer and the request handlers *)

\* the words of the dispatcher's fallback test
fallback_words == <<"drought", "resistant", "promote", "argument">>

\* any(word in question.lower() for word in [...])
fallback_to_policy(question) ==
  AnyKeyword(Lower(Text(question)), fallback_words)

\* the mutant of route: without an intent every question goes to the
\* comparison generator
route_no_fallback(entities, question) ==
  IF entities.comparison_type = "policy_arguments" THEN "generate_policy_arguments"
  ELSE IF entities.comparison_type = "comparison" THEN "generate_comparison"
  ELSE IF entities.comparison_type = "trend" THEN "generate_trend_analysis"
  ELSE "generate_comparison"

\* the generator the if / elif chain of generate_answer calls
route(entities, question) ==
  IF entities.comparison_type = "policy_arguments" THEN "generate_policy_arguments"
  ELSE IF entities.comparison_type = "comparison" THEN "generate_comparison"
  ELSE IF entities.comparison_type = "trend" THEN "generate_trend_analysis"
  ELSE IF fallback_to_policy(question) THEN "generate_policy_arguments"
  ELSE "generate_comparison"

generate_answer(entities, question, agri, clim) ==
  LET generator == route(entities, question)
  IN CASE generator = "generate_policy_arguments" ->
            generate_policy_arguments(entities, agri, clim)
       [] generator = "generate_comparison" ->
            generate_comparison(entities, agri, clim)
       [] generator = "generate_trend_analysis" ->
            generate_trend_analysis(entities, agri, clim)

\* the /ask handler: the AnswerResponse, or the HTTPException 500 that the
\* except clause raises for any exception of extraction or generation
ask_question(question, agri, clim) ==
  LET entities == extract_entities(question)
      generated == generate_answer(entities, question, agri, clim)
  IN IF generated.raised = None
     THEN [status_code |-> 200,
           answer      |-> generated.answer,
           sources     |-> generated.sources,
           data_points |-> generated.data_points]
     ELSE [status_code |-> 500,
           detail      |-> "Error processing question: " \o generated.raised]

\* the /health handler
health_check == [status |-> "healthy", service |-> "Project Samarth Q&A System"]

-----------------------------------------------------------------------------
(* The inputs of the operations *)

\* the sub-list of list at the positions in keep, in list order
RECURSIVE SubList(_, _, _)
SubList(list, keep, i) ==
  IF i > Len(list) THEN << >>
  ELSE (IF i \in keep THEN <<list[i]>> ELSE << >>) \o SubList(list, keep, i + 1)

\* every list MatchNames can return for a keyword table
NameLists(table) ==
  {SubList([i \in 1..Len(table) |-> table[i][1]], keep, 1) :
      keep \in SUBSET (1..Len(table))}

ComparisonTypes == {"comparison", "trend", "policy_arguments", None}

\* every entities value the generators can tell apart: they read states,
\* crops and comparison_type only
AllEntities ==
  [states : NameLists(state_keywords), crops : NameLists(crop_keywords),
   years : {<< >>}, metrics : {<< >>}, comparison_type : ComparisonTypes]

\* the entities the dispatcher is called with directly
DispatchEntities ==
  [states : {<< >>, <<"punjab", "gujarat">>}, crops : {<< >>},
   years : {<< >>}, metrics : {<< >>}, comparison_type : ComparisonTypes]

-----------------------------------------------------------------------------
(* The state machine: one call at a time is made and returns *)

Idle == [op |-> "idle"]

Init ==
  /\ AGRICULTURAL_DATA = StaticAgriculturalData
  /\ CLIMATE_DATA = StaticClimateData
  /\ call = Idle
  /\ result = None
  /\ served = 0

\* the states whose table entries a generator looks up
lookup_states(generator, entities) ==
  IF generator = "generate_comparison" THEN comparison_states(entities)
  ELSE <<target_state(entities)>>

\* the mutant of after_lookups: a lookup of a missing state inserts an empty
\* entry, as dict.setdefault would
after_lookups_setdefault(table, states, empty_entry) ==
  [st \in DOMAIN table \cup {states[i] : i \in 1..Len(states)} |->
      IF st \in DOMAIN table THEN table[st] ELSE empty_entry]

\* a table after the lookups of a generator: every access is a read
\* (dict.get, `in`, subscript), so the table is as it was
after_lookups(table, states, empty_entry) == table

\* a crop-table entry and a climate-table entry without data
EmptyAgricultureEntry == [crops |-> EmptyDict, water_requirements |-> EmptyDict]
EmptyClimateEntry ==
  [rainfall |-> << >>, drought_years |-> << >>, avg_temperature |-> 0,
   climate_zone |-> "Unknown"]

\* the two tables after a run of the generator (the call is still to return)
TablesAfter(generator, entities) ==
  /\ UNCHANGED served
  /\ AGRICULTURAL_DATA' =
       after_lookups(AGRICULTURAL_DATA, lookup_states(generator, entities),
                     EmptyAgricultureEntry)
  /\ CLIMATE_DATA' =
       after_lookups(CLIMATE_DATA, lookup_states(generator, entities),
                     EmptyClimateEntry)

\* POST /ask with a question of the set
AskQuestionOf(questions) ==
  /\ call = Idle /\ served < MaxCalls
  /\ \E question \in questions :
        LET entities == extract_entities(question)
        IN /\ call' = [op |-> "ask_question", question |-> question,
                       entities |-> entities]
           /\ result' = ask_question(question, AGRICULTURAL_DATA, CLIMATE_DATA)
           /\ TablesAfter(route(entities, question), entities)

\* generate_answer(entities, question)
GenerateAnswerOf(entity_inputs, questions) ==
  /\ call = Idle /\ served < MaxCalls
  /\ \E entities \in entity_inputs, question \in questions :
        /\ call' = [op |-> "generate_answer", question |-> question,
                    entities |-> entities]
        /\ result' = generate_answer(entities, question,
                                     AGRICULTURAL_DATA, CLIMATE_DATA)
        /\ TablesAfter(route(entities, question), entities)

\* generate_policy_arguments(entities)
GeneratePolicyArgumentsOf(entity_inputs) ==
  /\ call = Idle /\ served < MaxCalls
  /\ \E entities \in entity_inputs :
        /\ call' = [op |-> "generate_policy_arguments", entities |-> entities]
        /\ result' = generate_policy_arguments(entities,
                                               AGRICULTURAL_DATA, CLIMATE_DATA)
        /\ TablesAfter("generate_policy_arguments", entities)

\* generate_comparison(entities)
GenerateComparisonOf(entity_inputs) ==
  /\ call = Idle /\ served < MaxCalls
  /\ \E entities \in entity_inputs :
        /\ call' = [op |-> "generate_comparison", entities |-> entities]
        /\ result' = generate_comparison(entities, AGRICULTURAL_DATA, CLIMATE_DATA)
        /\ TablesAfter("generate_comparison", entities)

\* generate_trend_analysis(entities)
GenerateTrendAnalysisOf(entity_inputs) ==
  /\ call = Idle /\ served < MaxCalls
  /\ \E entities \in entity_inputs :
        /\ call' = [op |-> "generate_trend_analysis", entities |-> entities]
        /\ result' = generate_trend_analysis(entities,
                                             AGRICULTURAL_DATA, CLIMATE_DATA)
        /\ TablesAfter("generate_trend_analysis", entities)

\* GET /health
HealthCheck ==
  /\ call = Idle /\ served < MaxCalls
  /\ call' = [op |-> "health_check"]
  /\ result' = health_check
  /\ UNCHANGED <<AGRICULTURAL_DATA, CLIMATE_DATA, served>>

\* the call's result has been handed to the caller
Return ==
  /\ call # Idle
  /\ call' = Idle
  /\ result' = None
  /\ served' = served + 1
  /\ UNCHANGED <<AGRICULTURAL_DATA, CLIMATE_DATA>>

AskQuestion == AskQuestionOf(Questions)
GenerateAnswer == GenerateAnswerOf(DispatchEntities, Questions)
GeneratePolicyArguments == GeneratePolicyArgumentsOf(AllEntities)
GenerateComparison == GenerateComparisonOf(AllEntities)
GenerateTrendAnalysis == GenerateTrendAnalysisOf(AllEntities)

Next ==
  \/ AskQuestion
  \/ GenerateAnswer
  \/ GeneratePolicyArguments
  \/ GenerateComparison
  \/ GenerateTrendAnalysis
  \/ HealthCheck
  \/ Return

\* the service over the static dataset
Spec == Init /\ [][Next]_vars

-----------------------------------------------------------------------------
(* The same operations over any dataset of a bounded family: the static    *)
(* dataset, and the datasets of one state, rajasthan, with one crop, Bajra, *)
(* whose production series, rainfall series and drought years vary.         *)

\* the year labels of a generated dataset
DataYears == <<"2020", "2021", "2022">>

\* the production values of a generated dataset
DataProductions == {0, 300}

\* the rainfall values of a generated dataset
DataRainfalls == {300, 450}

\* the one-to-one lists of n of the year labels, in any order
YearLists(n) ==
  {ys \in [1..n -> {DataYears[i] : i \in 1..Len(DataYears)}] :
      \A i, j \in 1..n : i # j => ys[i] # ys[j]}

\* the production dicts: up to MaxSeries years inserted in any order
ProductionSeries ==
  UNION {{[i \in 1..n |-> <<ys[i], vs[i]>>] :
             ys \in YearLists(n), vs \in [1..n -> DataProductions]} :
         n \in 0..MaxSeries}

\* the rainfall dicts: the first years, inserted in ascending order
RainfallSeries ==
  UNION {{[i \in 1..n |-> <<DataYears[i], vs[i]>>] : vs \in [1..n -> DataRainfalls]} :
         n \in 0..MaxSeries}

\* the drought-year lists: the first years
DroughtYearLists == {SubSeq(DataYears, 1, n) : n \in 0..Len(DataYears)}

\* a generated dataset
GeneratedData ==
  /\ \E series \in ProductionSeries :
        AGRICULTURAL_DATA =
          [rajasthan |-> [crops |-> [Bajra |-> series],
                          water_requirements |-> [Bajra |-> "Low (350-400mm)"]]]
  /\ \E rainfall \in RainfallSeries, drought_years \in DroughtYearLists :
        CLIMATE_DATA =
          [rajasthan |-> [rainfall |-> rainfall, drought_years |-> drought_years,
                          avg_temperature |-> 285, climate_zone |-> "Arid"]]

\* the static dataset
StaticData ==
  /\ AGRICULTURAL_DATA = StaticAgriculturalData
  /\ CLIMATE_DATA = StaticClimateData

InitData ==
  /\ GeneratedData \/ StaticData
  /\ call = Idle
  /\ result = None
  /\ served = 0

\* the entities the generators are called with over a generated dataset
DataEntities ==
  [states : {<< >>, <<"punjab">>}, crops : {<< >>, <<"Bajra">>},
   years : {<< >>}, metrics : {<< >>}, comparison_type : {None}]

\* the questions asked over a generated dataset
DataQuestions == {<< >>, <<"trend">>, <<"promote">>}

AskQuestionData == AskQuestionOf(DataQuestions)
GenerateAnswerData == GenerateAnswerOf(DataEntities, DataQuestions)
GeneratePolicyArgumentsData == GeneratePolicyArgumentsOf(DataEntities)
GenerateComparisonData == GenerateComparisonOf(DataEntities)
GenerateTrendAnalysisData == GenerateTrendAnalysisOf(DataEntities)

NextData ==
  \/ AskQuestionData
  \/ GenerateAnswerData
  \/ GeneratePolicyArgumentsData
  \/ GenerateComparisonData
  \/ GenerateTrendAnalysisData
  \/ HealthCheck
  \/ Return

\* the service over any dataset of the family
SpecData == InitData /\ [][NextData]_vars

-----------------------------------------------------------------------------
(* Properties *)

\* a generator was called directly
GeneratorCalled ==
  call.op \in {"generate_policy_arguments", "generate_comparison",
               "generate_trend_analysis"}

\* the first segment of each generator's answer
PolicyHeading ==
  "## Data-Backed Arguments for Promoting Drought-Resistant Crops in "
ComparisonHeading == "## Comparative Analysis: "
TrendHeading == "## Trend Analysis for "

\* the segments of run occur next to one another in the answer
HasRun(answer, run) ==
  \E i \in 1..(Len(answer) - Len(run) + 1) :
     \A j \in 1..Len(run) : answer[i + j - 1] = run[j]

\* the number of times x occurs in the list
Count(x, list) == Cardinality({i \in 1..Len(list) : list[i] = x})

\* the elements of a list
Range(list) == {list[i] : i \in 1..Len(list)}

\* the states and the crops the static tables hold
KnownStates == {"rajasthan", "punjab"}
KnownCrops(state) ==
  IF state = "rajasthan" THEN {"Bajra", "Wheat", "Groundnut", "Guar", "Rice"}
  ELSE IF state = "punjab" THEN {"Wheat", "Rice", "Cotton", "Bajra"}
  ELSE {}

\* C1: over the static tables each generator, called with any entities the
\* extractor can produce, returns a result and raises nothing; a state without
\* table entries is reported with the defaults (zone "Unknown", no rainfall, no
\* crops) and a crop the state does not grow is left out of the output.
C1_GeneratorsNeverRaise ==
  GeneratorCalled =>
    /\ result.raised = None
    /\ Len(result.answer) > 0
    /\ Len(result.sources) = 2
    /\ call.op = "generate_comparison" =>
         \A st \in DOMAIN result.data_points :
            /\ DOMAIN result.data_points[st].crop_production \subseteq KnownCrops(st)
            /\ st \notin KnownStates =>
                 /\ result.data_points[st].climate_zone = "Unknown"
                 /\ result.data_points[st].rainfall = << >>
    /\ call.op = "generate_trend_analysis" =>
         /\ DOMAIN result.data_points.crop_trends
               \subseteq KnownCrops(target_state(call.entities))
         /\ target_state(call.entities) \notin KnownStates =>
               result.data_points.rainfall_trend = << >>
    /\ call.op = "generate_policy_arguments" =>
         /\ DOMAIN result.data_points.crop_stability
               \subseteq KnownCrops(target_state(call.entities))
         /\ target_state(call.entities) \notin KnownStates =>
               /\ result.data_points.climate_zone = "Unknown"
               /\ \A c \in DOMAIN result.data_points.water_requirements :
                     result.data_points.water_requirements[c] = "Unknown"

\* C1 witness: a comparison of a state with data and a state without, for a
\* crop the first grows and a crop it does not, has returned
C1_Witness ==
  /\ call.op = "generate_comparison"
  /\ call.entities.states = <<"punjab", "gujarat">>
  /\ call.entities.crops = <<"Cotton", "Guar">>
  /\ result.raised = None
  /\ DOMAIN result.data_points["punjab"].crop_production = {"Cotton"}
  /\ DOMAIN result.data_points["gujarat"].crop_production = {}

\* the heading of the generator the dispatcher is to choose for the pair
ExpectedHeading(entities, question) ==
  CASE entities.comparison_type = "policy_arguments" -> PolicyHeading
    [] entities.comparison_type = "comparison" -> ComparisonHeading
    [] entities.comparison_type = "trend" -> TrendHeading
    [] OTHER ->
         IF \E w \in {"drought", "resistant", "promote", "argument"} :
               Contains(Lower(Text(question)), Kw[w])
         THEN PolicyHeading ELSE ComparisonHeading

\* C2: generate_answer hands every (entities, question) pair to one generator:
\* the one of the intent, and without an intent the policy-argument generator
\* if the lower-cased question contains "drought", "resistant", "promote" or
\* "argument", the comparison generator otherwise.
C2_DispatcherRoutes ==
  call.op = "generate_answer" =>
    /\ result.raised = None
    /\ result.answer[1] = ExpectedHeading(call.entities, call.question)

\* C2 witness: without an intent, a question holding only "resistant" has been
\* answered by the policy-argument generator
C2_Witness ==
  /\ call.op = "generate_answer"
  /\ call.entities.comparison_type = None
  /\ call.question = <<"resistant">>
  /\ result.answer[1] = PolicyHeading

\* the question contains none of the keywords of the extractor or dispatcher
NoKeyword(question) ==
  \A k \in DOMAIN Kw : ~ Contains(Lower(Text(question)), Kw[k])

\* C3: a question without any recognized keyword, the empty one included, is
\* extracted to no intent, no states and no crops, and /ask answers it with
\* the comparison of rajasthan and punjab for Bajra and Wheat, without raising.
C3_NoKeywordDefaultsToComparison ==
  (call.op = "ask_question" /\ NoKeyword(call.question)) =>
    /\ call.entities.comparison_type = None
    /\ call.entities.states = << >>
    /\ call.entities.crops = << >>
    /\ result.status_code = 200
    /\ result.answer[1] = ComparisonHeading
    /\ result.answer[2] = "Rajasthan, Punjab"
    /\ DOMAIN result.data_points = {"rajasthan", "punjab"}
    /\ \A st \in DOMAIN result.data_points :
          DOMAIN result.data_points[st].crop_production = {"Bajra", "Wheat"}

\* C3 witness: the empty question has been answered
C3_Witness ==
  /\ call.op = "ask_question"
  /\ call.question = << >>
  /\ result.status_code = 200
  /\ result.answer[1] = ComparisonHeading

\* every name of the table occurs at most once in the list, and once if the
\* question contains one of its synonyms
OncePerName(question, table, names) ==
  \A e \in 1..Len(table) :
     /\ Count(table[e][1], names) <= 1
     /\ (\E k \in 1..Len(table[e][2]) :
            Contains(Lower(Text(question)), Kw[table[e][2][k]]))
          => Count(table[e][1], names) = 1

\* C4: the extracted crops hold each canonical crop at most once, and exactly
\* once when the question contains a synonym of it, however many of its
\* synonyms occur; likewise the extracted states.
C4_CanonicalNameOnce ==
  call.op = "ask_question" =>
    /\ OncePerName(call.question, crop_keywords, call.entities.crops)
    /\ OncePerName(call.question, state_keywords, call.entities.states)

\* C4 witness: a question with "pearl millet" (hence "millet") and "bajra"
\* has been extracted to a single Bajra
C4_Witness ==
  /\ call.op = "ask_question"
  /\ call.question = <<"pearl millet", "bajra">>
  /\ call.entities.crops = <<"Bajra">>

\* the position of a state in the declaration of state_keywords
StateIndex(state) ==
  CHOOSE i \in 1..Len(state_keywords) : state_keywords[i][1] = state

\* C5: the extracted states are in declaration order (rajasthan, punjab,
\* gujarat, haryana) whatever their order in the question; "Compare crop
\* production in Rajasthan and Punjab" gives intent comparison and states
\* [rajasthan, punjab], and so does the question with the two states swapped.
C5_StatesInDeclarationOrder ==
  call.op = "ask_question" =>
    /\ \A i, j \in 1..Len(call.entities.states) :
          i < j => StateIndex(call.entities.states[i])
                     < StateIndex(call.entities.states[j])
    /\ call.question \in {Sample2, Sample3} =>
          /\ call.entities.comparison_type = "comparison"
          /\ call.entities.states = <<"rajasthan", "punjab">>

\* C5 witness: the question naming Punjab before Rajasthan has been extracted
C5_Witness ==
  /\ call.op = "ask_question"
  /\ call.question = Sample3
  /\ call.entities.states = <<"rajasthan", "punjab">>

\* C6: every answer of /ask carries the two fixed sources, the agriculture
\* source first and the climate source second.
C6_TwoFixedSources ==
  call.op = "ask_question" =>
    /\ result.status_code = 200
    /\ Len(result.sources) = 2
    /\ result.sources[1].name = "Ministry of Agriculture - Crop Production Statistics"
    /\ result.sources[1].url =
         "https://data.gov.in/resource/all-india-season-wise-crop-production-statistics"
    /\ result.sources[2].name = "India Meteorological Department - Rainfall Data"
    /\ result.sources[2].url =
         "https://data.gov.in/resource/district-wise-rainfall-normal"

\* C6 witness: answers of the trend, the policy-argument and the comparison
\* generator are told apart by heading; a trend answer has been returned
C6_Witness ==
  /\ call.op = "ask_question"
  /\ result.status_code = 200
  /\ result.answer[1] = TrendHeading
  /\ Len(result.sources) = 2

NoNormalYears(series, drought_years) ==
  \A i \in 1..Len(series) : \E d \in 1..Len(drought_years) :
     series[i][1] = drought_years[d]

\* the production series and the drought years the policy call has read
PolicySeries(crop) == AGRICULTURAL_DATA[target_state(call.entities)].crops[crop]
PolicyDroughtYears == CLIMATE_DATA[target_state(call.entities)].drought_years

\* C8, as claimed: for any dataset, a crop of the target state without
\* non-drought years is reported with a drought resilience ratio of 0.
C8_Original ==
  call.op = "generate_policy_arguments" =>
    \A c \in DOMAIN result.data_points.crop_stability :
       NoNormalYears(PolicySeries(c), PolicyDroughtYears) =>
          result.data_points.crop_stability[c].drought_resilience = "0.0%"

\* C8, amended: for any dataset, a reported crop of the target state without
\* non-drought years has the crop's average over all years as denominator, so
\* its drought resilience is 100.0% when that average is positive and 0.0%
\* only when it is 0.
C8_NoNormalYearsRatio ==
  call.op = "generate_policy_arguments" =>
    \A c \in DOMAIN result.data_points.crop_stability :
       NoNormalYears(PolicySeries(c), PolicyDroughtYears) =>
          result.data_points.crop_stability[c].drought_resilience =
             IF Sum(Values(PolicySeries(c))) > 0 THEN "100.0%" ELSE "0.0%"

\* C8 witness: Bajra, produced in drought years only, is reported at 100.0%
C8_Witness ==
  /\ call.op = "generate_policy_arguments"
  /\ "Bajra" \in DOMAIN result.data_points.crop_stability
  /\ NoNormalYears(PolicySeries("Bajra"), PolicyDroughtYears)
  /\ result.data_points.crop_stability["Bajra"].drought_resilience = "100.0%"

\* C9: over the static tables the policy-argument generator called with states
\* [rajasthan] or with no state, and no crops, returns an answer that contains
\* "Rajasthan", the drought years as "2020, 2021" and the Bajra water line
\* "Low (350-400mm)".
C9_PolicyAnswerForRajasthan ==
  (/\ call.op = "generate_policy_arguments"
   /\ call.entities.states \in {<< >>, <<"rajasthan">>}
   /\ call.entities.crops = << >>) =>
    /\ result.raised = None
    /\ HasRun(result.answer, <<"Rajasthan">>)
    /\ HasRun(result.answer, <<"- Recent Drought Years: ", "2020, 2021", "\n">>)
    /\ HasRun(result.answer, <<"- **", "Bajra", "**: ", "Low (350-400mm)",
                               " water requirement\n">>)

\* C9 witness: the generator has answered a call without states and crops
C9_Witness ==
  /\ call.op = "generate_policy_arguments"
  /\ call.entities.states = << >>
  /\ call.entities.crops = << >>
  /\ result.answer[2] = "Rajasthan"

\* the value of the earliest (latest) year of a non-empty series
FirstValue(series) ==
  series[CHOOSE i \in 1..Len(series) :
            \A j \in 1..Len(series) :
               YearNumber(series[i][1]) <= YearNumber(series[j][1])][2]
LastValue(series) ==
  series[CHOOSE i \in 1..Len(series) :
            \A j \in 1..Len(series) :
               YearNumber(series[i][1]) >= YearNumber(series[j][1])][2]

\* the direction and the magnitude reported for a series that goes from first
\* to last in count values
TrendWords(first, last, count) ==
  <<IF last - first > 0 THEN "Increasing" ELSE "Decreasing", " by ",
    Format1(<<IF last >= first THEN last - first ELSE first - last, count>>)>>

\* the rainfall values the trend call has read
TrendRainfall == Values(rainfall_of(CLIMATE_DATA, target_state(call.entities)))

\* C10: for any dataset the trend generator reports (last - first) / count,
\* count being the number of values, as Increasing only when it is above 0 and
\* as Decreasing otherwise, zero included; the rainfall of the static
\* rajasthan entry is Decreasing by 8.0 mm per year.
C10_LinearTrend ==
  (call.op = "generate_trend_analysis" /\ result.raised = None) =>
    /\ Len(TrendRainfall) > 1 =>
         \E icon \in {"(up) ", "(down) "} :
            HasRun(result.answer,
                   <<"- **Rainfall Trend**: ", icon>>
                   \o TrendWords(TrendRainfall[1], TrendRainfall[Len(TrendRainfall)],
                                 Len(TrendRainfall))
                   \o <<"mm per year\n">>)
    /\ \A c \in DOMAIN result.data_points.crop_trends :
         \E icon \in {"(up) ", "(down) "} :
            HasRun(result.answer,
                   <<"- **", c, "**: ", icon>>
                   \o TrendWords(FirstValue(result.data_points.crop_trends[c]),
                                 LastValue(result.data_points.crop_trends[c]),
                                 Len(result.data_points.crop_trends[c]))
                   \o <<" thousand tonnes/year\n">>)
    /\ (CLIMATE_DATA = StaticClimateData
        /\ target_state(call.entities) = "rajasthan") =>
         HasRun(result.answer,
                <<"- **Rainfall Trend**: ", "(down) ", "Decreasing", " by ", "8.0",
                  "mm per year\n">>)

\* C10 witness: a rainfall series that ends where it began is reported as
\* Decreasing by 0.0
C10_Witness ==
  /\ call.op = "generate_trend_analysis"
  /\ result.raised = None
  /\ Len(TrendRainfall) > 1
  /\ TrendRainfall[1] = TrendRainfall[Len(TrendRainfall)]
  /\ HasRun(result.answer,
            <<"- **Rainfall Trend**: ", "(down) ", "Decreasing", " by ", "0.0",
              "mm per year\n">>)

\* the sum and the number of the values of a series, taken item by item
RECURSIVE SeriesTotal(_)
SeriesTotal(series) ==
  IF Len(series) = 0 THEN 0 ELSE series[1][2] + SeriesTotal(Tail(series))

\* C11: over the static tables the comparison generator reports, for each
\* requested state and each requested crop the state grows, the arithmetic mean
\* of the crop's yearly production over all its years; with the defaults the
\* average Bajra production of punjab is (800+750+700+650+680)/5 = 716.
C11_ComparisonMean ==
  (call.op = "generate_comparison" /\ result.raised = None) =>
    /\ \A st \in Range(comparison_states(call.entities)) :
         \A c \in Range(requested_crops(call.entities)) \cap KnownCrops(st) :
            HasRun(result.answer,
                   <<"- **", c, "**: ",
                     FormatThousands0(
                        <<SeriesTotal(StaticAgriculturalData[st].crops[c]),
                          Len(StaticAgriculturalData[st].crops[c])>>),
                     " thousand tonnes (Water: ",
                     StaticAgriculturalData[st].water_requirements[c], ")\n">>)
    /\ (call.entities.states = << >> /\ call.entities.crops = << >>) =>
         /\ SeriesTotal(StaticAgriculturalData["punjab"].crops["Bajra"])
              = 800 + 750 + 700 + 650 + 680
         /\ HasRun(result.answer,
                   <<"### ", "Punjab", "\n", "- **Climate Zone**: ", "Semi-Arid",
                     "\n", "- **Average Rainfall**: ", "610.0", "mm\n",
                     "- **", "Bajra", "**: ", "716", " thousand tonnes (Water: ",
                     "Low (350-400mm)", ")\n">>)

\* C11 witness: the comparison with the default states and crops has returned
\* with the punjab Bajra line at 716
C11_Witness ==
  /\ call.op = "generate_comparison"
  /\ call.entities.states = << >>
  /\ call.entities.crops = << >>
  /\ result.raised = None
  /\ HasRun(result.answer, <<"- **", "Bajra", "**: ", "716">>)

\* the production series of the requested crops the trend call has found
TrendSeries(crop) == AGRICULTURAL_DATA[target_state(call.entities)].crops[crop]
TrendCrops ==
  {c \in Range(requested_crops(call.entities)) :
      /\ target_state(call.entities) \in DOMAIN AGRICULTURAL_DATA
      /\ c \in DOMAIN AGRICULTURAL_DATA[target_state(call.entities)].crops}

\* C12, as claimed: for any dataset the trend generator treats a rainfall or
\* crop production series of fewer than 2 values as "no trend": the call
\* returns, with no trend line for that series.
C12_TrendNeedsTwoValues ==
  call.op = "generate_trend_analysis" =>
    /\ Len(TrendRainfall) < 2 =>
         /\ result.raised = None
         /\ ~ HasRun(result.answer, <<"- **Rainfall Trend**: ">>)
    /\ \A c \in TrendCrops :
         Len(TrendSeries(c)) < 2 =>
            /\ result.raised = None
            /\ ~ HasRun(result.answer, <<"- **", c, "**: ">>)

\* C13: the intent is a fixed precedence: a question containing "compare" has
\* intent comparison whatever else it contains, one containing "trend" and not
\* "compare" has intent trend, and /ask answers a question containing
\* "compare" with the comparison generator, also next to "drought" or
\* "resistant".
C13_IntentPrecedence ==
  call.op = "ask_question" =>
    LET text == Lower(Text(call.question))
    IN /\ Contains(text, Kw["compare"]) =>
            /\ call.entities.comparison_type = "comparison"
            /\ result.status_code = 200
            /\ result.answer[1] = ComparisonHeading
       /\ (Contains(text, Kw["trend"]) /\ ~ Contains(text, Kw["compare"])) =>
            /\ call.entities.comparison_type = "trend"
            /\ result.answer[1] = TrendHeading

\* C13 witness: a question naming "trend" before "compare" has been answered
\* by the comparison generator
C13_Witness ==
  /\ call.op = "ask_question"
  /\ call.question = <<"trend", "Compare">>
  /\ call.entities.comparison_type = "comparison"
  /\ result.answer[1] = ComparisonHeading

\* C14: when the target state of the policy-argument generator has no recorded
\* drought years, as punjab in the static tables, every crop of crop_stability
\* has drought_resilience "0.0%"; for punjab these are Bajra, Rice and Wheat.
C14_NoDroughtYearsZeroResilience ==
  call.op = "generate_policy_arguments" =>
    /\ result.data_points.drought_years = << >> =>
         \A c \in DOMAIN result.data_points.crop_stability :
            result.data_points.crop_stability[c].drought_resilience = "0.0%"
    /\ (AGRICULTURAL_DATA = StaticAgriculturalData
        /\ CLIMATE_DATA = StaticClimateData
        /\ target_state(call.entities) = "punjab") =>
         /\ result.data_points.drought_years = << >>
         /\ DOMAIN result.data_points.crop_stability = {"Bajra", "Rice", "Wheat"}

\* C14 witness: the generator has reported the punjab crops of the static
\* tables, Wheat at 0.0%
C14_Witness ==
  /\ call.op = "generate_policy_arguments"
  /\ AGRICULTURAL_DATA = StaticAgriculturalData
  /\ target_state(call.entities) = "punjab"
  /\ result.data_points.crop_stability["Wheat"].drought_resilience = "0.0%"

====
